---- MODULE Spec2Model ----
(***************************************************************************)
(* Control+F (src/ControlF.py): a local tabular search tool.               *)
(*                                                                         *)
(*   LocalFileSearcher  loads a file into one table per sheet and scans a  *)
(*                      sheet for a case-insensitive substring;            *)
(*   FileSearchApp      runs one worker thread per searched sheet, hands    *)
(*                      the result to the Tk thread with root.after and   *)
(*                      accumulates it in search_results;                  *)
(*   ColumnSelector     edits the per-sheet column selection;              *)
(*   the exporters      project search_results through the selection.      *)
(*                                                                         *)
(* Text is a sequence of one-character strings, so that substring search   *)
(* and lower-casing are computed and not assumed.                          *)
(***************************************************************************)
EXTENDS Integers, Sequences, FiniteSets, TLC

\* ------------------------------------------------------------- bounds
\* Worker threads started over a whole run.
MaxTasks == 2
\* Commands the user gives over a whole run (a file picked, a load, a search,
\* a clear).
MaxClicks == 4

\* ------------------------------------------------------------- text
UpperChars == <<"A", "B", "C", "D", "E", "F", "G", "H", "I", "J", "K", "L", "M",
                "N", "O", "P", "Q", "R", "S", "T", "U", "V", "W", "X", "Y", "Z">>
LowerChars == <<"a", "b", "c", "d", "e", "f", "g", "h", "i", "j", "k", "l", "m",
                "n", "o", "p", "q", "r", "s", "t", "u", "v", "w", "x", "y", "z">>
DigitChars == <<"0", "1", "2", "3", "4", "5", "6", "7", "8", "9">>

\* str.lower() on one character.
LowerChar(c) ==
    IF \E i \in 1..Len(UpperChars) : UpperChars[i] = c
    THEN LowerChars[CHOOSE i \in 1..Len(UpperChars) : UpperChars[i] = c]
    ELSE c

\* str.upper() on one character.
UpperChar(c) ==
    IF \E i \in 1..Len(LowerChars) : LowerChars[i] = c
    THEN UpperChars[CHOOSE i \in 1..Len(LowerChars) : LowerChars[i] = c]
    ELSE c

\* str.upper()
Upper(s) == [i \in 1..Len(s) |-> UpperChar(s[i])]

\* (a bug Lower could have: the text is compared as it is)
LowerKeepsCase(s) == s

\* str.lower()
Lower(s) == [i \in 1..Len(s) |-> LowerChar(s[i])]

\* str(n) of a natural number: its decimal digits.
RECURSIVE Digits(_)
Digits(n) ==
    IF n < 10 THEN <<DigitChars[n + 1]>>
    ELSE Digits(n \div 10) \o <<DigitChars[(n % 10) + 1]>>

\* `q in s` on Python strings.
Contains(q, s) ==
    \E i \in 0..(Len(s) - Len(q)) : SubSeq(s, i + 1, i + Len(q)) = q

\* ------------------------------------------------------------- cell values
\* A cell of a DataFrame: text, an integer, or NaN (an empty cell of a text
\* column).
StrV(s) == [t |-> "str", s |-> s, n |-> 0]
IntV(n) == [t |-> "int", s |-> <<>>, n |-> n]
NaN == [t |-> "nan", s |-> <<>>, n |-> 0]

\* df.astype(str) on one cell.
AsStr(v) ==
    CASE v.t = "str" -> v.s
      [] v.t = "int" -> Digits(v.n)
      [] OTHER -> <<"n", "a", "n">>

\* ------------------------------------------------------------- the files
\* A path is <<name, extension>>; path.endswith(ext) looks at the extension.
\* A table is its ordered columns and its rows, each row a mapping from
\* column name to cell.
PXlsx == <<"P", ".xlsx">>
QCsv == <<"Q", ".csv">>
BadXlsx == <<"bad", ".xlsx">>
NotesTxt == <<"notes", ".txt">>
Paths == {PXlsx, QCsv, BadXlsx, NotesTxt}

\* file_path_var before any file was picked (the empty string), and
\* LocalFileSearcher.file_path before any load (None).
NoPath == <<"", "">>
NonePath == <<>>

EndsWith(path, ext) == Len(path) = 2 /\ path[2] = ext

TableA ==
    [columns |-> <<"Name", "Age">>,
     rows |-> << [Name |-> StrV(<<"A", "n", "a">>), Age |-> IntV(31)],
                 [Name |-> StrV(<<"B", "o", "b">>), Age |-> IntV(25)] >>]
TableB ==
    [columns |-> <<"Name", "City">>,
     rows |-> << [Name |-> StrV(<<"E", "v", "e">>), City |-> StrV(<<"R", "i", "g", "a">>)],
                 [Name |-> StrV(<<"A", "l">>), City |-> NaN],
                 [Name |-> StrV(<<"K", "i", "m">>), City |-> StrV(<<"B", "e", "r", "n">>)] >>]
TableC ==
    [columns |-> <<"Id", "Name">>,
     rows |-> << [Id |-> IntV(7), Name |-> StrV(<<"O", "t", "t", "o">>)] >>]
TableBadA ==
    [columns |-> <<"Name", "City">>,
     rows |-> << [Name |-> StrV(<<"B", "o">>), City |-> StrV(<<"O", "s", "l", "o">>)],
                 [Name |-> StrV(<<"A", "l">>), City |-> StrV(<<"R", "o", "m", "e">>)] >>]
TableCsv ==
    [columns |-> <<"Name", "Age">>,
     rows |-> << [Name |-> StrV(<<"A", "l", "i", "c", "e">>), Age |-> IntV(30)],
                 [Name |-> StrV(<<"B", "o", "b">>), Age |-> IntV(25)] >>]

\* pd.ExcelFile(path).sheet_names of the workbooks.
SheetNames(path) ==
    CASE path = PXlsx -> <<"A", "B", "C">>
      [] path = BadXlsx -> <<"A", "C">>
      [] OTHER -> <<>>

\* xl.parse(sheet) raises: bad.xlsx has a corrupt second sheet.
ParseFails(path, sheet) == path = BadXlsx /\ sheet = "C"

\* xl.parse(sheet), and _read_csv(path) for the csv: the DataFrame.
SheetTable(path, sheet) ==
    CASE path = QCsv -> TableCsv
      [] path = BadXlsx -> TableBadA
      [] sheet = "A" -> TableA
      [] sheet = "B" -> TableB
      [] OTHER -> TableC

\* The search terms the user types (search_entry, stripped, not empty).
Queries == {<<"o">>}

\* ------------------------------------------------------------- LocalFileSearcher
\* file_data: a dict from sheet name to DataFrame.
EmptyDict == [x \in {} |-> {}]
Put(d, k, v) == [x \in (DOMAIN d) \cup {k} |-> IF x = k THEN v ELSE d[x]]

\* LocalFileSearcher.__init__
NewSearcher == [file_path |-> NonePath, worksheets |-> <<>>, file_data |-> EmptyDict]

\* load_file, line 40
LoadSetPath(s, path) == [s EXCEPT !.file_path = path]
\* load_file, lines 41-43
LoadReset(s) == [s EXCEPT !.worksheets = <<>>, !.file_data = EmptyDict]
\* load_file, line 48
LoadCsvSheets(s) == [s EXCEPT !.worksheets = <<"Sheet1">>]
\* load_file, lines 49-54
LoadCsvData(s, path) ==
    [s EXCEPT !.file_data = Put(s.file_data, "Sheet1", SheetTable(path, "Sheet1"))]
\* load_file, lines 59-60
LoadXlSheets(s, path) == [s EXCEPT !.worksheets = SheetNames(path)]
\* load_file, lines 64-69, for one sheet
LoadXlData(s, path, sheet) ==
    [s EXCEPT !.file_data = Put(s.file_data, sheet, SheetTable(path, sheet))]

\* The loop of lines 62-69 from sheet number i on: the searcher it leaves and
\* whether a parse raised.
RECURSIVE LoadXlLoop(_, _, _)
LoadXlLoop(s, path, i) ==
    IF i > Len(SheetNames(path)) THEN [ok |-> TRUE, s |-> s]
    ELSE IF ParseFails(path, SheetNames(path)[i]) THEN [ok |-> FALSE, s |-> s]
    ELSE LoadXlLoop(LoadXlData(s, path, SheetNames(path)[i]), path, i + 1)

\* load_file run without interruption: ok is FALSE when it raises
\* FileSearchError, s is the searcher it leaves behind.
load_file(s, path) ==
    LET s1 == LoadReset(LoadSetPath(s, path)) IN
    IF EndsWith(path, ".csv")
    THEN [ok |-> TRUE, s |-> LoadCsvData(LoadCsvSheets(s1), path)]
    ELSE IF EndsWith(path, ".xlsx") \/ EndsWith(path, ".xls")
    THEN LoadXlLoop(LoadXlSheets(s1, path), path, 1)
    ELSE [ok |-> TRUE, s |-> s1]

\* (a bug MatchRecord could have: the label carries the 0-based row index)
MatchRecordZeroBased(df, sheet_name, r, c) ==
    [worksheet |-> sheet_name,
     cell |-> <<df.columns[c]>> \o Digits(r - 1),
     value |-> AsStr(df.rows[r][df.columns[c]]),
     row |-> r,
     col |-> c,
     full_row |-> df.rows[r],
     columns |-> df.columns]

\* One match of search_in_worksheet, lines 113-124.  The cell label is the
\* column name followed by the digits of the 1-based row number.
MatchRecord(df, sheet_name, r, c) ==
    [worksheet |-> sheet_name,
     cell |-> <<df.columns[c]>> \o Digits(r),
     value |-> AsStr(df.rows[r][df.columns[c]]),
     row |-> r,
     col |-> c,
     full_row |-> df.rows[r],
     columns |-> df.columns]

\* query.lower() in cell_value.lower(), line 112
CellMatches(df, query, r, c) ==
    Contains(Lower(query), Lower(AsStr(df.rows[r][df.columns[c]])))

\* The cells of a table in the order of the two loops of lines 110-111.
CellOrder(df) ==
    LET nc == Len(df.columns) IN
    [k \in 1..(Len(df.rows) * nc) |-> <<((k - 1) \div nc) + 1, ((k - 1) % nc) + 1>>]

\* (a bug Scan could have: the scan of a row stops at its first match)
ScanFirstPerRow(df, sheet_name, query) ==
    LET first(rc) == /\ CellMatches(df, query, rc[1], rc[2])
                     /\ \A c \in 1..(rc[2] - 1) : ~CellMatches(df, query, rc[1], c)
        hits == SelectSeq(CellOrder(df), first)
    IN [k \in 1..Len(hits) |-> MatchRecord(df, sheet_name, hits[k][1], hits[k][2])]

\* search_in_worksheet, lines 101-125: the scan of one DataFrame.
Scan(df, sheet_name, query) ==
    LET hits == SelectSeq(CellOrder(df), LAMBDA rc : CellMatches(df, query, rc[1], rc[2]))
    IN [k \in 1..Len(hits) |-> MatchRecord(df, sheet_name, hits[k][1], hits[k][2])]

\* search_in_worksheet run without interruption.
search_in_worksheet(s, sheet_name, query) ==
    IF sheet_name \notin DOMAIN s.file_data THEN <<>>
    ELSE Scan(s.file_data[sheet_name], sheet_name, query)

\* ------------------------------------------------------------- FileSearchApp
VARIABLES
    file_path_var,    \* the picked path (a read-only entry set by select_file)
    combo_values,     \* the sheet names offered by worksheet_combo
    searcher,         \* the one LocalFileSearcher, shared by every thread
    tasks,            \* the worker threads started so far, with their locals
    queue,            \* the callbacks posted with root.after, oldest first
    search_results,   \* the shared result list
    results_tree,     \* the rows shown in the results view
    log_lines,        \* per worker thread, the log lines its callbacks wrote
    tk_errors,        \* the worker threads one of whose callbacks raised
    clicks,           \* the commands the user has given so far
    selected_columns, \* the applied column selection: sheet name -> set of columns
    selector,         \* the ColumnSelector window, while it is open
    export_file,      \* the file the last export wrote
    lock,             \* self.lock is held
    exporting,        \* the export handler the Tk thread is in, and where
    csv_text,         \* _read_csv: the lines of the file it is given
    delimiter         \* _read_csv: the delimiter it detected

vars == <<file_path_var, combo_values, searcher, tasks, queue, search_results,
          results_tree, log_lines, tk_errors, clicks, selected_columns, selector,
          export_file, lock, exporting, csv_text, delimiter>>

\* The locals of _read_csv are followed only where the function is examined
\* on its own.
CsvFrame == <<csv_text, delimiter>>

\* What the search commands, the worker threads and their callbacks leave as
\* it is: the column selection, the export under way and the exported
\* file (self.lock is free again when _display_results and clear_results
\* return).
SelFrame == <<selected_columns, selector, export_file, lock, exporting, CsvFrame>>

\* The Tk thread is in no export handler.
NotExporting == [pc |-> "idle", format |-> "", ordered_headers |-> <<>>]

\* _read_csv has not run.
NoDelimiter == ""

\* No ColumnSelector window is open.
NoSelector ==
    [open |-> FALSE, shared |-> FALSE, own |-> EmptyDict, applied |-> FALSE,
     search_results |-> <<>>, ticked |-> {},
     filter |-> <<>>, under |-> {}, detached |-> {}, hidden |-> {}]

\* No export has written a file yet.
NoFile == [format |-> "", header |-> <<>>, rows |-> <<>>, failed |-> FALSE]

\* A logged message: what it says, the sheet it names, the number and the
\* error description it carries.
Msg(kind, sheet, n, text) == [kind |-> kind, sheet |-> sheet, n |-> n, text |-> text]

\* FileSearchApp.__init__
Init ==
    /\ file_path_var = NoPath
    /\ combo_values = <<>>
    /\ searcher = NewSearcher
    /\ tasks = <<>>
    /\ queue = <<>>
    /\ search_results = <<>>
    /\ results_tree = <<>>
    /\ log_lines = <<>>
    /\ tk_errors = {}
    /\ clicks = 0
    /\ selected_columns = EmptyDict
    /\ selector = NoSelector
    /\ export_file = NoFile
    /\ lock = FALSE
    /\ exporting = NotExporting
    /\ csv_text = <<>>
    /\ delimiter = NoDelimiter

\* threading.Thread(target=self._search_thread, args=(...)).start(): the new
\* thread stands before the first statement of _search_thread.
NewTask(file_path, worksheet_name, query) ==
    [file_path |-> file_path, worksheet_name |-> worksheet_name, query |-> query,
     pc |-> "check", i |-> 0, results |-> <<>>, err |-> ""]

\* (a bug TreeRow could have: the value column shows the cell reference)
TreeRowOfCell(worksheet_name, result) == <<worksheet_name, result.cell, result.cell>>

\* The row _display_results inserts in results_tree for one result.
TreeRow(worksheet_name, result) == <<worksheet_name, result.cell, result.value>>

\* (a bug Extend could have: the records are inserted one by one before the
\* last record of the list instead of after it)
ExtendInterleaved(list, results) ==
    IF list = <<>> THEN results
    ELSE SubSeq(list, 1, Len(list) - 1) \o results \o <<list[Len(list)]>>

\* list.extend, line 795
Extend(list, results) == list \o results

\* (a bug Cleared could have: the list is left as it is)
ClearedKeepsList(list) == list

\* list.clear(), line 804
Cleared(list) == <<>>

\* select_file: the dialog returns a path.
select_file(p) ==
    /\ file_path_var' = p
    /\ UNCHANGED <<combo_values, searcher, tasks, queue, search_results,
                   results_tree, log_lines, tk_errors>>
    /\ UNCHANGED SelFrame

\* load_worksheets, on the Tk thread.  Without a path it only logs; a load
\* that raises, or that finds no sheet, leaves the combo box as it was.
load_worksheets ==
    /\ IF file_path_var = NoPath
       THEN UNCHANGED <<combo_values, searcher>>
       ELSE LET r == load_file(searcher, file_path_var) IN
            /\ searcher' = r.s
            /\ combo_values' = IF r.ok /\ r.s.worksheets # <<>>
                               THEN r.s.worksheets ELSE combo_values
    /\ UNCHANGED <<file_path_var, tasks, queue, search_results, results_tree,
                   log_lines, tk_errors>>
    /\ UNCHANGED SelFrame

\* What worksheet_combo.get() can return: the sheet the user picked among the
\* values, the empty string while the combo box has none.
ComboChoices ==
    IF combo_values = <<>> THEN {""} ELSE {combo_values[k] : k \in 1..Len(combo_values)}

\* start_search: the combo box holds worksheet w and the user typed q.
\* Without a path or without a worksheet it only logs.
start_search(w, q) ==
    /\ IF file_path_var = NoPath \/ w = ""
       THEN UNCHANGED <<tasks, log_lines>>
       ELSE /\ tasks' = Append(tasks, NewTask(file_path_var, w, q))
            /\ log_lines' = Append(log_lines, <<>>)
    /\ UNCHANGED <<file_path_var, combo_values, searcher, queue, search_results,
                   results_tree, tk_errors>>
    /\ UNCHANGED SelFrame

\* (a bug clear_results_state could have: only the view is emptied)
clear_results_tree_only ==
    /\ results_tree' = <<>>
    /\ UNCHANGED search_results

\* clear_results, lines 800-804
clear_results_state ==
    /\ results_tree' = <<>>
    /\ search_results' = Cleared(search_results)

\* clear_results
clear_results ==
    /\ clear_results_state
    /\ UNCHANGED <<file_path_var, combo_values, searcher, tasks, queue, log_lines,
                   tk_errors>>
    /\ UNCHANGED SelFrame

\* The threads search_all_worksheets starts, one per sheet of the list, in
\* the order of the list (lines 754-759).
SpawnAll(ts, file_path, worksheets, q) ==
    ts \o [k \in 1..Len(worksheets) |-> NewTask(file_path, worksheets[k], q)]

\* search_all_worksheets with the term q typed.  Without a path or without
\* worksheets it only logs.
search_all_worksheets(q) ==
    /\ IF file_path_var = NoPath \/ searcher.worksheets = <<>>
       THEN UNCHANGED <<tasks, log_lines, search_results, results_tree>>
       ELSE /\ clear_results_state
            /\ tasks' = SpawnAll(tasks, file_path_var, searcher.worksheets, q)
            /\ log_lines' = log_lines \o [k \in 1..Len(searcher.worksheets) |-> <<>>]
    /\ UNCHANGED <<file_path_var, combo_values, searcher, queue, tk_errors>>
    /\ UNCHANGED SelFrame

\* ------------------------------------------------------------- _search_thread
\* One step of worker thread t.  The threads share `searcher` without any
\* lock, so every read and write of it is a step of its own.
ThreadFrame == <<file_path_var, combo_values, search_results, results_tree,
                 log_lines, tk_errors, clicks, SelFrame>>

\* line 768: does the file have to be loaded?
NeedsLoad(s, file_path) == DOMAIN s.file_data = {} \/ s.file_path # file_path

thread_check(t) ==
    /\ tasks[t].pc = "check"
    /\ tasks' = [tasks EXCEPT ![t].pc =
                    IF NeedsLoad(searcher, tasks[t].file_path) THEN "load40" ELSE "search98"]
    /\ UNCHANGED <<searcher, queue>> /\ UNCHANGED ThreadFrame

\* load_file, line 40
thread_load_path(t) ==
    /\ tasks[t].pc = "load40"
    /\ searcher' = LoadSetPath(searcher, tasks[t].file_path)
    /\ tasks' = [tasks EXCEPT ![t].pc = "load41"]
    /\ UNCHANGED queue /\ UNCHANGED ThreadFrame

\* load_file, lines 41-45 and 56: the reset and the choice of the format
thread_load_reset(t) ==
    /\ tasks[t].pc = "load41"
    /\ searcher' = LoadReset(searcher)
    /\ tasks' = [tasks EXCEPT ![t].pc =
                    IF EndsWith(tasks[t].file_path, ".csv") THEN "load48"
                    ELSE IF EndsWith(tasks[t].file_path, ".xlsx")
                            \/ EndsWith(tasks[t].file_path, ".xls") THEN "load59"
                    ELSE "search98"]
    /\ UNCHANGED queue /\ UNCHANGED ThreadFrame

\* load_file, lines 48-49: the sheet list, then the file is read
thread_load_csv_sheets(t) ==
    /\ tasks[t].pc = "load48"
    /\ searcher' = LoadCsvSheets(searcher)
    /\ tasks' = [tasks EXCEPT ![t].pc = "load50"]
    /\ UNCHANGED queue /\ UNCHANGED ThreadFrame

\* load_file, lines 50-54 and 71
thread_load_csv_data(t) ==
    /\ tasks[t].pc = "load50"
    /\ searcher' = LoadCsvData(searcher, tasks[t].file_path)
    /\ tasks' = [tasks EXCEPT ![t].pc = "search98"]
    /\ UNCHANGED queue /\ UNCHANGED ThreadFrame

\* load_file, lines 59-62: the workbook is opened and its sheets listed
thread_load_xl_sheets(t) ==
    /\ tasks[t].pc = "load59"
    /\ searcher' = LoadXlSheets(searcher, tasks[t].file_path)
    /\ tasks' = [tasks EXCEPT ![t].pc =
                    IF SheetNames(tasks[t].file_path) = <<>> THEN "search98" ELSE "load64",
                                ![t].i = 1]
    /\ UNCHANGED queue /\ UNCHANGED ThreadFrame

\* load_file, lines 64-69 for the next sheet; a parse that raises ends the
\* load in the handler of lines 72-74 and the thread in that of line 778.
thread_load_xl_data(t) ==
    /\ tasks[t].pc = "load64"
    /\ LET path == tasks[t].file_path
           sheet == SheetNames(path)[tasks[t].i] IN
       IF ParseFails(path, sheet)
       THEN /\ tasks' = [tasks EXCEPT ![t].pc = "fail779",
                                      ![t].err = "Falha ao carregar arquivo"]
            /\ UNCHANGED searcher
       ELSE /\ searcher' = LoadXlData(searcher, path, sheet)
            /\ tasks' = [tasks EXCEPT ![t].i = @ + 1,
                                      ![t].pc = IF tasks[t].i = Len(SheetNames(path))
                                                THEN "search98" ELSE "load64"]
    /\ UNCHANGED queue /\ UNCHANGED ThreadFrame

\* search_in_worksheet, lines 98-99
thread_search_lookup(t) ==
    /\ tasks[t].pc = "search98"
    /\ tasks' = [tasks EXCEPT ![t].pc =
                    IF tasks[t].worksheet_name \notin DOMAIN searcher.file_data
                    THEN "post774" ELSE "search101"]
    /\ UNCHANGED <<searcher, queue>> /\ UNCHANGED ThreadFrame

\* search_in_worksheet, lines 101-125: the table is read a second time (a
\* KeyError when a load has reset file_data in between, turned into
\* FileSearchError by lines 126-128) and scanned.
thread_search_scan(t) ==
    /\ tasks[t].pc = "search101"
    /\ IF tasks[t].worksheet_name \notin DOMAIN searcher.file_data
       THEN tasks' = [tasks EXCEPT ![t].pc = "fail779", ![t].err = "Falha na busca"]
       ELSE tasks' = [tasks EXCEPT ![t].pc = "post774",
                         ![t].results = Scan(searcher.file_data[tasks[t].worksheet_name],
                                             tasks[t].worksheet_name, tasks[t].query)]
    /\ UNCHANGED <<searcher, queue>> /\ UNCHANGED ThreadFrame

\* line 774: root.after(0, lambda: self._display_results(...))
thread_post_display(t) ==
    /\ tasks[t].pc = "post774"
    /\ queue' = Append(queue, [kind |-> "display", task |-> t])
    /\ tasks' = [tasks EXCEPT ![t].pc = "post775"]
    /\ UNCHANGED searcher /\ UNCHANGED ThreadFrame

\* lines 775-777: root.after(0, lambda: self.log("Encontrados ..."))
thread_post_found(t) ==
    /\ tasks[t].pc = "post775"
    /\ queue' = Append(queue, [kind |-> "found", task |-> t])
    /\ tasks' = [tasks EXCEPT ![t].pc = "done"]
    /\ UNCHANGED searcher /\ UNCHANGED ThreadFrame

\* lines 778-781: root.after(0, lambda: self.log("Erro em ...")); leaving the
\* except block unbinds e, which the lambda still names.
thread_post_error(t) ==
    /\ tasks[t].pc = "fail779"
    /\ queue' = Append(queue, [kind |-> "error", task |-> t])
    /\ tasks' = [tasks EXCEPT ![t].pc = "failed"]
    /\ UNCHANGED searcher /\ UNCHANGED ThreadFrame

search_thread(t) ==
    \/ thread_check(t)
    \/ thread_load_path(t)
    \/ thread_load_reset(t)
    \/ thread_load_csv_sheets(t)
    \/ thread_load_csv_data(t)
    \/ thread_load_xl_sheets(t)
    \/ thread_load_xl_data(t)
    \/ thread_search_lookup(t)
    \/ thread_search_scan(t)
    \/ thread_post_display(t)
    \/ thread_post_found(t)
    \/ thread_post_error(t)

\* ------------------------------------------------------------- the Tk thread
UiFrame == <<file_path_var, combo_values, searcher, tasks, clicks, SelFrame>>

\* (a bug display_results could have: the batch of a search started before
\* the latest one is dropped)
display_results_of_latest(t) ==
    /\ IF t = Len(tasks)
       THEN /\ results_tree' = results_tree \o
                  [k \in 1..Len(tasks[t].results) |->
                      TreeRow(tasks[t].worksheet_name, tasks[t].results[k])]
            /\ search_results' = Extend(search_results, tasks[t].results)
       ELSE UNCHANGED <<results_tree, search_results>>
    /\ UNCHANGED <<log_lines, tk_errors>>

\* _display_results(worksheet_name, results)
display_results(t) ==
    /\ results_tree' = results_tree \o
          [k \in 1..Len(tasks[t].results) |->
              TreeRow(tasks[t].worksheet_name, tasks[t].results[k])]
    /\ search_results' = Extend(search_results, tasks[t].results)
    /\ UNCHANGED <<log_lines, tk_errors>>

\* (a bug FoundMsg could have: the rows of the whole view are counted)
FoundMsgCountsView(t) ==
    Msg("Encontrados", tasks[t].worksheet_name, Len(results_tree) + 1, "")

\* The message of the callback of lines 775-777.
FoundMsg(t) == Msg("Encontrados", tasks[t].worksheet_name, Len(tasks[t].results), "")

\* self.log(message), for a message of worker thread t
log_found(t) ==
    /\ log_lines' = [log_lines EXCEPT ![t] = Append(@, FoundMsg(t))]
    /\ UNCHANGED <<search_results, results_tree, tk_errors>>

\* (a bug log_error could have: the callback never returns)
log_error_hangs(t) == FALSE

\* The callback of lines 779-781 evaluates str(e) when Tk runs it: e is
\* unbound by then, the lambda raises NameError and Tk reports it on stderr;
\* self.log is never reached.
log_error(t) ==
    /\ tk_errors' = tk_errors \cup {t}
    /\ UNCHANGED <<search_results, results_tree, log_lines>>

\* (a bug TkBusy could have: the Tk thread runs callbacks at any point of
\* an export handler)
TkNeverBusy == FALSE

\* The Tk thread is inside an export handler and not in the event loop of
\* its save dialog: no callback and no command runs until it returns.
TkBusy == exporting.pc \notin {"idle", "dialog"}

\* The Tk main loop (or the event loop of a modal window) runs the oldest
\* posted callback.
dispatch ==
    /\ ~TkBusy
    /\ queue # <<>>
    /\ queue' = Tail(queue)
    /\ LET cb == Head(queue) IN
       CASE cb.kind = "display" -> display_results(cb.task)
         [] cb.kind = "found" -> log_found(cb.task)
         [] OTHER -> log_error(cb.task)
    /\ UNCHANGED UiFrame

\* One more command of the user (a button of the main window), as long as
\* the bound allows.
Click == clicks < MaxClicks /\ clicks' = clicks + 1

\* The application: the user's commands, the Tk main loop and the worker
\* threads, in any interleaving.
Next ==
    \/ \E p \in Paths : Click /\ select_file(p)
    \/ Click /\ load_worksheets
    \/ \E w \in ComboChoices, q \in Queries :
          Click /\ Len(tasks) < MaxTasks /\ start_search(w, q)
    \/ \E q \in Queries :
          /\ Click
          /\ Len(tasks) + Len(searcher.worksheets) <= MaxTasks
          /\ search_all_worksheets(q)
    \/ Click /\ clear_results
    \/ dispatch
    \/ \E t \in 1..Len(tasks) : thread_check(t)
    \/ \E t \in 1..Len(tasks) : thread_load_path(t)
    \/ \E t \in 1..Len(tasks) : thread_load_reset(t)
    \/ \E t \in 1..Len(tasks) : thread_load_csv_sheets(t)
    \/ \E t \in 1..Len(tasks) : thread_load_csv_data(t)
    \/ \E t \in 1..Len(tasks) : thread_load_xl_sheets(t)
    \/ \E t \in 1..Len(tasks) : thread_load_xl_data(t)
    \/ \E t \in 1..Len(tasks) : thread_search_lookup(t)
    \/ \E t \in 1..Len(tasks) : thread_search_scan(t)
    \/ \E t \in 1..Len(tasks) : thread_post_display(t)
    \/ \E t \in 1..Len(tasks) : thread_post_found(t)
    \/ \E t \in 1..Len(tasks) : thread_post_error(t)

Spec == Init /\ [][Next]_vars

\* The operating system runs every started thread, and the Tk main loop runs
\* every posted callback; the user may stop giving commands at any time.
FairSpec ==
    /\ Spec
    /\ WF_vars(dispatch)
    /\ \A t \in 1..MaxTasks : WF_vars(t <= Len(tasks) /\ search_thread(t))

\* ------------------------------------------------------------- one search-all
\* The application after a file was loaded (or a load failed) and a file,
\* the same or another, was picked: the states in which the user presses
\* "search all".
InitAll ==
    /\ \E loaded \in Paths :
          /\ searcher = load_file(NewSearcher, loaded).s
          /\ combo_values = IF load_file(NewSearcher, loaded).ok
                            THEN searcher.worksheets ELSE <<>>
    /\ file_path_var \in Paths
    /\ tasks = <<>>
    /\ queue = <<>>
    /\ search_results = <<>>
    /\ results_tree = <<>>
    /\ log_lines = <<>>
    /\ tk_errors = {}
    /\ clicks = 0
    /\ selected_columns = EmptyDict
    /\ selector = NoSelector
    /\ export_file = NoFile
    /\ lock = FALSE
    /\ exporting = NotExporting
    /\ csv_text = <<>>
    /\ delimiter = NoDelimiter

\* One search-all, its worker threads and the Tk main loop.
NextAll ==
    \/ \E q \in Queries : tasks = <<>> /\ search_all_worksheets(q) /\ UNCHANGED clicks
    \/ dispatch
    \/ \E t \in 1..Len(tasks) : thread_check(t)
    \/ \E t \in 1..Len(tasks) : thread_load_path(t)
    \/ \E t \in 1..Len(tasks) : thread_load_reset(t)
    \/ \E t \in 1..Len(tasks) : thread_load_csv_sheets(t)
    \/ \E t \in 1..Len(tasks) : thread_load_csv_data(t)
    \/ \E t \in 1..Len(tasks) : thread_load_xl_sheets(t)
    \/ \E t \in 1..Len(tasks) : thread_load_xl_data(t)
    \/ \E t \in 1..Len(tasks) : thread_search_lookup(t)
    \/ \E t \in 1..Len(tasks) : thread_search_scan(t)
    \/ \E t \in 1..Len(tasks) : thread_post_display(t)
    \/ \E t \in 1..Len(tasks) : thread_post_found(t)
    \/ \E t \in 1..Len(tasks) : thread_post_error(t)

SpecAll == InitAll /\ [][NextAll]_vars

\* The threads of one search-all: the sheets of the largest workbook.
MaxSheets == Len(SheetNames(PXlsx))

\* The operating system runs every started thread, and the Tk main loop runs
\* every posted callback.
FairAll ==
    /\ SpecAll
    /\ WF_vars(dispatch)
    /\ \A t \in 1..MaxSheets : WF_vars(t <= Len(tasks) /\ search_thread(t))

\* ------------------------------------------------------------- ColumnSelector
\* The two headers every exported row carries (lines 829-830).
WorksheetKey == "worksheet"
CellKey == "célula"

\* The column names of the files, in the order sorted() puts them.
SortedColumns == <<"Age", "City", "Id", "Name">>

\* sorted(S) for a set of column names
Sorted(S) == SelectSeq(SortedColumns, LAMBDA c : c \in S)

\* get_unique_columns: per sheet of the results, the keys of its full rows.
get_unique_columns(results) ==
    LET sheets == {results[k].worksheet : k \in 1..Len(results)} IN
    [ws \in sheets |->
        UNION {DOMAIN results[k].full_row :
                  k \in {j \in 1..Len(results) : results[j].worksheet = ws}}]

\* Reading d[k] of a defaultdict(set) for every k of `keys`: a key that is
\* not there is inserted with the empty set.
Touched(d, keys) ==
    [x \in (DOMAIN d) \cup keys |-> IF x \in DOMAIN d THEN d[x] ELSE {}]

\* The column items load_columns puts in the tree: values=(worksheet, column).
TreeItems(results) ==
    LET uc == get_unique_columns(results) IN
    UNION {{<<ws, col>> : col \in uc[ws]} : ws \in DOMAIN uc}

\* self.selected_columns of the open selector.  Line 141 keeps the
\* application's dict itself, not a copy of it, when that dict is not empty:
\* the two names then denote one object.
SelectorDict == IF selector.shared THEN selected_columns ELSE selector.own

\* An edit of the selector: its dict becomes d (in place, so the
\* application's dict with it when they are one object) and the ticked
\* items of the tree become `ticked`.
SelectorWrites(d, ticked) ==
    /\ selector' = [selector EXCEPT !.own = IF selector.shared THEN @ ELSE d,
                                    !.ticked = ticked]
    /\ selected_columns' = IF selector.shared THEN d ELSE selected_columns

\* What the column selector and the exporters never touch.
MainFrame == <<file_path_var, combo_values, searcher, tasks, queue, search_results,
               results_tree, log_lines, tk_errors, clicks, CsvFrame>>

\* What the column selector never touches of the exports.
ExportFrame == <<export_file, lock, exporting>>

\* open_column_selector up to wait_window, with ColumnSelector.__init__ and
\* load_columns.  Without results it only logs.
open_column_selector ==
    /\ ~selector.open /\ exporting.pc = "idle"
    /\ IF search_results = <<>>
       THEN UNCHANGED <<selected_columns, selector>>
       ELSE LET shared == DOMAIN selected_columns # {}
                d0 == IF shared THEN selected_columns ELSE EmptyDict
                d1 == Touched(d0, DOMAIN get_unique_columns(search_results))
                ticked == {it \in TreeItems(search_results) : it[2] \in d1[it[1]]}
            IN /\ selector' = [open |-> TRUE, shared |-> shared,
                               own |-> IF shared THEN EmptyDict ELSE d1,
                               applied |-> FALSE,
                               search_results |-> search_results,
                               ticked |-> ticked,
                               filter |-> <<>>,
                               under |-> TreeItems(search_results),
                               detached |-> {},
                               hidden |-> {}]
               /\ selected_columns' = IF shared THEN d1 ELSE selected_columns
    /\ UNCHANGED ExportFrame /\ UNCHANGED MainFrame

\* (a bug Toggled could have: a click on a ticked item leaves the column in
\* the set and only removes the mark)
ToggledKeepsColumn(d0, ticked, item) ==
    LET d == Touched(d0, {item[1]}) IN
    IF item \in ticked
    THEN [d |-> d, ticked |-> ticked \ {item}]
    ELSE [d |-> [d EXCEPT ![item[1]] = @ \cup {item[2]}], ticked |-> ticked \cup {item}]

\* Lines 345-351: the dict and the ticked items a click on a column item
\* leaves, from the dict d0 and the ticked items before it.
Toggled(d0, ticked, item) ==
    LET d == Touched(d0, {item[1]}) IN
    IF item \in ticked
    THEN [d |-> [d EXCEPT ![item[1]] = @ \ {item[2]}], ticked |-> ticked \ {item}]
    ELSE [d |-> [d EXCEPT ![item[1]] = @ \cup {item[2]}], ticked |-> ticked \cup {item}]

\* on_tree_click on a column item
on_tree_click(item) ==
    /\ selector.open
    /\ item \in TreeItems(selector.search_results) \ selector.detached
    /\ LET r == Toggled(SelectorDict, selector.ticked, item) IN
       SelectorWrites(r.d, r.ticked)
    /\ UNCHANGED ExportFrame /\ UNCHANGED MainFrame

\* The columns of sheet ws among a set of tree items.
ColumnsOf(items, ws) == {it[2] : it \in {c \in items : c[1] = ws}}

\* The text of a column name.
ColumnText(col) ==
    CASE col = "Name" -> <<"N", "a", "m", "e">>
      [] col = "Age" -> <<"A", "g", "e">>
      [] col = "City" -> <<"C", "i", "t", "y">>
      [] OTHER -> <<"I", "d">>

\* The tree of the selector: `under` are the column items that are children
\* of their worksheet item, `detached` those taken out of the tree, `hidden`
\* the worksheet items taken out of it.  A column item that is neither is
\* shown at the top level, next to the worksheet items: tree.detach clears
\* the parent of an item, and line 313 re-attaches every item to
\* tree.parent(item), which for an item that was detached is the root.
\*
\* The column items the two nested loops of toggle_all and toggle_filtered
\* reach: the children of the worksheet items of the top level.
Visited(sel) == {it \in sel.under : it[1] \notin sel.hidden}

\* filter_text in clean_text.lower(), lines 323 and 392
FilterMatches(typed, item) == Contains(Lower(typed), Lower(ColumnText(item[2])))

\* The column items toggle_filtered acts on.
Filtered(sel) == {it \in Visited(sel) : FilterMatches(sel.filter, it)}

\* apply_filter after the text of the filter entry became `typed` (a key
\* was released in the entry).  Every item is re-attached (lines 312-313);
\* with a filter, the column items that do not match are detached and so is
\* a worksheet item that has no child when the loop comes to it, which is
\* before the loop comes to its children.
apply_filter(typed) ==
    /\ selector.open
    /\ LET items == TreeItems(selector.search_results)
           sheets == {it[1] : it \in items}
           gone == {it \in items : ~FilterMatches(typed, it)}
       IN selector' =
             IF Lower(typed) = <<>>
             THEN [selector EXCEPT !.filter = typed, !.detached = {}, !.hidden = {}]
             ELSE [selector EXCEPT
                      !.filter = typed,
                      !.under = @ \ gone,
                      !.detached = gone,
                      !.hidden = {ws \in sheets : \A it \in selector.under : it[1] # ws}]
    /\ UNCHANGED selected_columns /\ UNCHANGED ExportFrame /\ UNCHANGED MainFrame

\* (a bug SetAll could have: every item reached changes its state)
SetAllFlips(d0, ticked, items, state) ==
    LET d == Touched(d0, {it[1] : it \in items}) IN
    [d |-> [ws \in DOMAIN d |->
               (d[ws] \ ColumnsOf(items \cap ticked, ws)) \cup ColumnsOf(items \ ticked, ws)],
     ticked |-> (ticked \ items) \cup (items \ ticked)]

\* The loops of toggle_all and toggle_filtered over the column items
\* `items` (lines 367-374, 395-402): the dict and the ticked items they
\* leave.  An item changes only when its mark is not the one asked for.
SetAll(d0, ticked, items, state) ==
    IF state
    THEN LET d == Touched(d0, {it[1] : it \in items \ ticked}) IN
         [d |-> [ws \in DOMAIN d |-> d[ws] \cup ColumnsOf(items \ ticked, ws)],
          ticked |-> ticked \cup items]
    ELSE LET d == Touched(d0, {it[1] : it \in items \cap ticked}) IN
         [d |-> [ws \in DOMAIN d |-> d[ws] \ ColumnsOf(items \cap ticked, ws)],
          ticked |-> ticked \ items]

\* toggle_all(state)
toggle_all(state) ==
    /\ selector.open
    /\ LET r == SetAll(SelectorDict, selector.ticked, Visited(selector), state) IN
       SelectorWrites(r.d, r.ticked)
    /\ UNCHANGED ExportFrame /\ UNCHANGED MainFrame

\* toggle_filtered(state): without a filter text it returns at once.
toggle_filtered(state) ==
    /\ selector.open
    /\ IF Lower(selector.filter) = <<>>
       THEN UNCHANGED <<selector, selected_columns>>
       ELSE LET r == SetAll(SelectorDict, selector.ticked, Filtered(selector), state) IN
            SelectorWrites(r.d, r.ticked)
    /\ UNCHANGED ExportFrame /\ UNCHANGED MainFrame

\* Lines 417-426: the items of the column of the focus item, whether they
\* are shown or not, that are not ticked get ticked.
MarkedSame(d0, ticked, all_items, focus) ==
    LET items == {it \in all_items : it[2] = focus[2] /\ it \notin ticked}
        d == Touched(d0, {it[1] : it \in items})
    IN [d |-> [ws \in DOMAIN d |-> d[ws] \cup ColumnsOf(items, ws)],
        ticked |-> ticked \cup items]

\* mark_same_columns with the focus of the tree on a column item
mark_same_columns(focus) ==
    /\ selector.open
    /\ focus \in TreeItems(selector.search_results)
    /\ LET r == MarkedSame(SelectorDict, selector.ticked,
                           TreeItems(selector.search_results), focus) IN
       SelectorWrites(r.d, r.ticked)
    /\ UNCHANGED ExportFrame /\ UNCHANGED MainFrame

\* The column lines update_selection_map shows in the list box.
ListedColumns(d) == UNION {d[ws] : ws \in DOMAIN d}

\* remove_selected with a column line of the list box selected
remove_selected(column_name) ==
    /\ selector.open
    /\ column_name \in ListedColumns(SelectorDict)
    /\ LET d == SelectorDict IN
       SelectorWrites([ws \in DOMAIN d |-> d[ws] \ {column_name}],
                      {it \in selector.ticked : it[2] # column_name})
    /\ UNCHANGED ExportFrame /\ UNCHANGED MainFrame

\* apply_selection
apply_selection ==
    /\ selector.open
    /\ selector' = [selector EXCEPT !.applied = TRUE]
    /\ UNCHANGED selected_columns /\ UNCHANGED ExportFrame /\ UNCHANGED MainFrame

\* close_selector (button, Escape), then open_column_selector from line 819
close_selector ==
    /\ selector.open
    /\ selected_columns' = IF selector.applied THEN SelectorDict ELSE selected_columns
    /\ selector' = NoSelector
    /\ UNCHANGED ExportFrame /\ UNCHANGED MainFrame

\* cancel: the selector's name is bound to a new empty dict and the window
\* destroyed; then open_column_selector from line 819
cancel ==
    /\ selector.open
    /\ selected_columns' = IF selector.applied THEN EmptyDict ELSE selected_columns
    /\ selector' = NoSelector
    /\ UNCHANGED ExportFrame /\ UNCHANGED MainFrame

\* ------------------------------------------------------------- the exporters
\* A row dict is the sequence of its <<key, value>> pairs in insertion order.
Keys(row) == [k \in 1..Len(row) |-> row[k][1]]
KeySet(row) == {row[k][1] : k \in 1..Len(row)}
Get(row, key) == row[CHOOSE k \in 1..Len(row) : row[k][1] = key][2]

\* row[key] = value
SetKey(row, key, value) ==
    IF key \in KeySet(row)
    THEN [k \in 1..Len(row) |-> IF row[k][1] = key THEN <<key, value>> ELSE row[k]]
    ELSE Append(row, <<key, value>>)

\* The orders in which a set can be iterated.
Perms(S) ==
    {p \in [1..Cardinality(S) -> S] : \A i, j \in 1..Cardinality(S) : p[i] = p[j] => i = j}

\* Iterating a set of strings follows their hashes, which differ from run to
\* run: an order for each set of the selection.
SetOrders(sel) ==
    {f \in [DOMAIN sel -> UNION {Perms(sel[ws]) : ws \in DOMAIN sel}] :
        \A ws \in DOMAIN sel : f[ws] \in Perms(sel[ws])}

\* lines 828-830: the full row, then the two fixed keys
RowData(result) ==
    LET full == [k \in 1..Len(result.columns) |->
                    <<result.columns[k], result.full_row[result.columns[k]]>>]
    IN SetKey(SetKey(full, WorksheetKey, StrV(<<result.worksheet>>)),
              CellKey, StrV(result.cell))

\* (a bug get_filtered_row could have: the selection is not looked at)
get_unfiltered_row(sel, result, order) == RowData(result)

\* get_filtered_row under the selection sel, whose sets iterate in `order`
get_filtered_row(sel, result, order) ==
    LET row_data == RowData(result) IN
    IF DOMAIN sel # {} /\ result.worksheet \in DOMAIN sel
    THEN LET kept == SelectSeq(order[result.worksheet],
                               LAMBDA col : col \in KeySet(row_data))
             picked == [k \in 1..Len(kept) |-> <<kept[k], Get(row_data, kept[k])>>]
         IN SetKey(SetKey(picked, WorksheetKey, StrV(<<result.worksheet>>)),
                   CellKey, StrV(result.cell))
    ELSE row_data

\* (a bug RecordAfterProjection could have: the row is built in the record's
\* own full_row, which so gets the two fixed keys)
RecordProjectedInPlace(result) ==
    [result EXCEPT !.full_row =
        [key \in (DOMAIN result.full_row) \cup {WorksheetKey, CellKey} |->
            IF key = WorksheetKey THEN StrV(<<result.worksheet>>)
            ELSE IF key = CellKey THEN StrV(result.cell)
            ELSE result.full_row[key]]]

\* The record get_filtered_row leaves behind: line 828 builds the row in a
\* copy of full_row and line 836 in a new dict, the record is only read.
RecordAfterProjection(result) == result

\* get_all_headers
get_all_headers(sel, results) ==
    LET all_headers ==
            IF DOMAIN sel # {}
            THEN UNION {sel[ws] : ws \in DOMAIN sel}
            ELSE UNION {DOMAIN results[k].full_row : k \in 1..Len(results)}
    IN <<WorksheetKey, CellKey>> \o Sorted(all_headers \ {WorksheetKey, CellKey})

\* The main window takes commands: no modal window is open and the Tk
\* thread is in no handler.
MainWindowFree == ~selector.open /\ exporting.pc = "idle"

\* What no step of an export touches.
ExportKeeps == <<selected_columns, selector, MainFrame>>

\* The first lines of the three export handlers (861-872, 890-901, 922-933):
\* without results the handler only logs; otherwise the save dialog opens.
export_begin(format) ==
    /\ MainWindowFree
    /\ exporting' = IF search_results = <<>> THEN exporting
                    ELSE [pc |-> "dialog", format |-> format, ordered_headers |-> <<>>]
    /\ UNCHANGED <<export_file, lock>> /\ UNCHANGED ExportKeeps

export_full_rows_to_json == export_begin("json")

export_full_rows_to_csv == export_begin("csv")

export_full_rows_to_excel == export_begin("xlsx")

\* The save dialog returns (lines 869-875): without a path the handler
\* returns.  While the dialog is open its event loop runs the posted
\* callbacks.
export_dialog(chosen) ==
    /\ exporting.pc = "dialog"
    /\ exporting' = IF ~chosen THEN NotExporting
                    ELSE [exporting EXCEPT
                             !.pc = IF exporting.format = "json" THEN "lock" ELSE "headers"]
    /\ UNCHANGED <<export_file, lock>> /\ UNCHANGED ExportKeeps

\* Lines 906 and 938: get_all_headers, called before `with self.lock`.  The
\* CSV export then opens its file, which empties it, and writes the header
\* row (lines 908-910).
export_headers ==
    /\ exporting.pc = "headers"
    /\ LET ordered_headers == get_all_headers(selected_columns, search_results) IN
       /\ exporting' = [exporting EXCEPT !.pc = "lock", !.ordered_headers = ordered_headers]
       /\ export_file' = IF exporting.format = "csv"
                         THEN [format |-> "csv", header |-> ordered_headers,
                               rows |-> <<>>, failed |-> FALSE]
                         ELSE export_file
    /\ UNCHANGED lock /\ UNCHANGED ExportKeeps

\* `with self.lock:` of lines 879, 912 and 940
export_acquire ==
    /\ exporting.pc = "lock"
    /\ ~lock
    /\ lock' = TRUE
    /\ exporting' = [exporting EXCEPT !.pc = "rows"]
    /\ UNCHANGED export_file /\ UNCHANGED ExportKeeps

\* csv.DictWriter.writerow: the values of the row under the field names, ''
\* for a field the row lacks, each written as str() gives it.
CsvLine(fieldnames, row) ==
    [h \in 1..Len(fieldnames) |->
        IF fieldnames[h] \in KeySet(row) THEN AsStr(Get(row, fieldnames[h])) ELSE <<>>]

\* The rows DictWriter writes from row k on; it raises ValueError at the
\* first row with a key that is not a field name, and what was written
\* before stays in the file.
RECURSIVE CsvWrite(_, _, _)
CsvWrite(fieldnames, rows, k) ==
    IF k > Len(rows) THEN [rows |-> <<>>, failed |-> FALSE]
    ELSE IF \E key \in KeySet(rows[k]) : \A h \in 1..Len(fieldnames) : fieldnames[h] # key
    THEN [rows |-> <<>>, failed |-> TRUE]
    ELSE LET rest == CsvWrite(fieldnames, rows, k + 1) IN
         [rows |-> <<CsvLine(fieldnames, rows[k])>> \o rest.rows, failed |-> rest.failed]

\* line 944: [row_data.get(header, '') for header in ordered_headers]
OrderedRow(ordered_headers, row) ==
    [h \in 1..Len(ordered_headers) |->
        IF ordered_headers[h] \in KeySet(row) THEN Get(row, ordered_headers[h])
        ELSE StrV(<<>>)]

\* (a bug the exports could have: the lock is released by hand after the
\* loop, so an exception in the loop leaves it held)
LockKeptOnError(raised) == raised

\* The lock when the block of `with self.lock:` (lines 879, 913, 941) is
\* left, by its end or by an exception raised in it: released.
LockOnExit(raised) == FALSE

\* The loop over search_results inside the lock (lines 880-881, 913-915,
\* 941-945), the release of the lock and the rest of the handler: JSON and
\* Excel write their file after the loop, CSV has written each row as it
\* went and stops at the row DictWriter refuses.
export_rows ==
    /\ exporting.pc = "rows"
    /\ \E order \in SetOrders(selected_columns) :
          LET rows == [k \in 1..Len(search_results) |->
                         get_filtered_row(selected_columns, search_results[k], order)]
              out == CsvWrite(exporting.ordered_headers, rows, 1)
          IN export_file' =
                CASE exporting.format = "json" ->
                        [format |-> "json", header |-> <<>>, rows |-> rows, failed |-> FALSE]
                  [] exporting.format = "csv" ->
                        [format |-> "csv", header |-> exporting.ordered_headers,
                         rows |-> out.rows, failed |-> out.failed]
                  [] OTHER ->
                        [format |-> "xlsx", header |-> exporting.ordered_headers,
                         rows |-> [k \in 1..Len(rows) |->
                                     OrderedRow(exporting.ordered_headers, rows[k])],
                         failed |-> FALSE]
    /\ search_results' = [k \in 1..Len(search_results) |->
                              RecordAfterProjection(search_results[k])]
    /\ lock' = LockOnExit(export_file'.failed)
    /\ exporting' = NotExporting
    /\ UNCHANGED <<selected_columns, selector, file_path_var, combo_values, searcher,
                   tasks, queue, results_tree, log_lines, tk_errors, clicks, CsvFrame>>

\* ------------------------------------------------------------- selecting and exporting
\* A worker thread of a search-all that has run to its end.
DoneTask(file_path, s, worksheet_name, query) ==
    [NewTask(file_path, worksheet_name, query) EXCEPT
        !.pc = "done", !.results = search_in_worksheet(s, worksheet_name, query)]

\* The callbacks thread t posts when its search returns (lines 774-777).
Posted(t) == <<[kind |-> "display", task |-> t], [kind |-> "found", task |-> t]>>

RECURSIVE PostedBy(_, _)
PostedBy(n, t) == IF t > n THEN <<>> ELSE Posted(t) \o PostedBy(n, t + 1)

\* The application after a file was picked and loaded (bad.xlsx: the load
\* failed half-way) and a search-all was run whose threads have completed
\* one after the other; their callbacks wait for the Tk thread.  The states
\* from which the user selects columns and exports while the results
\* arrive.
InitSel ==
    \E path \in {PXlsx, QCsv, BadXlsx}, q \in Queries :
        LET r == load_file(NewSearcher, path) IN
        /\ file_path_var = path
        /\ combo_values = (IF r.ok THEN r.s.worksheets ELSE <<>>)
        /\ searcher = r.s
        /\ tasks = [k \in 1..Len(r.s.worksheets) |->
                       DoneTask(path, r.s, r.s.worksheets[k], q)]
        /\ queue = PostedBy(Len(r.s.worksheets), 1)
        /\ search_results = <<>>
        /\ results_tree = <<>>
        /\ log_lines = [k \in 1..Len(r.s.worksheets) |-> <<>>]
        /\ tk_errors = {}
        /\ clicks = 0
        /\ selected_columns = EmptyDict
        /\ selector = NoSelector
        /\ export_file = NoFile
        /\ lock = FALSE
        /\ exporting = NotExporting
        /\ csv_text = <<>>
        /\ delimiter = NoDelimiter

\* The Tk thread running the callbacks, and the user's commands on the
\* column selector and the export buttons.
NextSel ==
    \/ dispatch
    \/ open_column_selector
    \/ \E item \in TreeItems(selector.search_results) : on_tree_click(item)
    \/ \E state \in BOOLEAN : toggle_all(state)
    \/ \E focus \in TreeItems(selector.search_results) : mark_same_columns(focus)
    \/ \E column_name \in ListedColumns(SelectorDict) : remove_selected(column_name)
    \/ apply_selection
    \/ close_selector
    \/ cancel
    \/ export_full_rows_to_json
    \/ export_full_rows_to_csv
    \/ export_full_rows_to_excel
    \/ \E chosen \in BOOLEAN : export_dialog(chosen)
    \/ export_headers
    \/ export_acquire
    \/ export_rows

SpecSel == InitSel /\ [][NextSel]_vars

\* The same, and the user's clear button, which the main window offers
\* while no modal window is open.
NextLock ==
    \/ NextSel
    \/ MainWindowFree /\ clear_results /\ UNCHANGED clicks

SpecLock == InitSel /\ [][NextLock]_vars

\* ------------------------------------------------------------- the filter of the selector
\* What the user types in the filter entry: nothing, a text two column
\* names contain, the same in capitals, a text two others contain.
FilterTexts == {<<>>, <<"a">>, <<"A">>, <<"i">>}

\* The results of all the threads, in the order of the threads.
RECURSIVE AllResults(_, _)
AllResults(ts, t) == IF t > Len(ts) THEN <<>> ELSE ts[t].results \o AllResults(ts, t + 1)

\* The application after P.xlsx was loaded and a search-all has completed,
\* its callbacks run: the states in which the user opens the column
\* selector and works in it.
InitFilter ==
    \E q \in {<<"o">>, <<"a", "n">>} :
        LET r == load_file(NewSearcher, PXlsx)
            ts == [k \in 1..Len(r.s.worksheets) |-> DoneTask(PXlsx, r.s, r.s.worksheets[k], q)]
        IN
        /\ file_path_var = PXlsx
        /\ combo_values = r.s.worksheets
        /\ searcher = r.s
        /\ tasks = ts
        /\ queue = <<>>
        /\ search_results = AllResults(ts, 1)
        /\ results_tree = [k \in 1..Len(AllResults(ts, 1)) |->
                              TreeRow(AllResults(ts, 1)[k].worksheet, AllResults(ts, 1)[k])]
        /\ log_lines = [k \in 1..Len(ts) |->
                           <<Msg("Encontrados", ts[k].worksheet_name, Len(ts[k].results), "")>>]
        /\ tk_errors = {}
        /\ clicks = 0
        /\ selected_columns = EmptyDict
        /\ selector = NoSelector
        /\ export_file = NoFile
        /\ lock = FALSE
        /\ exporting = NotExporting
        /\ csv_text = <<>>
        /\ delimiter = NoDelimiter

\* The user's commands on the column selector, the filter entry included.
NextFilter ==
    \/ open_column_selector
    \/ \E typed \in FilterTexts : apply_filter(typed)
    \/ \E item \in TreeItems(selector.search_results) : on_tree_click(item)
    \/ \E state \in BOOLEAN : toggle_all(state)
    \/ \E state \in BOOLEAN : toggle_filtered(state)
    \/ \E focus \in TreeItems(selector.search_results) : mark_same_columns(focus)
    \/ \E column_name \in ListedColumns(SelectorDict) : remove_selected(column_name)
    \/ apply_selection
    \/ close_selector
    \/ cancel

SpecFilter == InitFilter /\ [][NextFilter]_vars

\* ------------------------------------------------------------- clearing during a search
\* The term of the search in flight and the term of the search-all that
\* follows it.
EarlierQuery == <<"o">>
LaterQuery == <<"3">>

\* The application when a file is loaded and start_search has just started
\* the thread of a search for the earlier term in its first sheet.
InitClear ==
    \E path \in {QCsv, PXlsx} :
        LET r == load_file(NewSearcher, path) IN
        /\ file_path_var = path
        /\ combo_values = r.s.worksheets
        /\ searcher = r.s
        /\ tasks = <<NewTask(path, r.s.worksheets[1], EarlierQuery)>>
        /\ queue = <<>>
        /\ search_results = <<>>
        /\ results_tree = <<>>
        /\ log_lines = << <<>> >>
        /\ tk_errors = {}
        /\ clicks = 0
        /\ selected_columns = EmptyDict
        /\ selector = NoSelector
        /\ export_file = NoFile
        /\ lock = FALSE
        /\ exporting = NotExporting
        /\ csv_text = <<>>
        /\ delimiter = NoDelimiter

\* The thread in flight, the Tk main loop, and the user who clears the
\* results at any time and starts one search-all for the later term.
NextClear ==
    \/ clear_results /\ UNCHANGED clicks
    \/ Len(tasks) = 1 /\ search_all_worksheets(LaterQuery) /\ UNCHANGED clicks
    \/ dispatch
    \/ \E t \in 1..Len(tasks) : thread_check(t)
    \/ \E t \in 1..Len(tasks) : thread_search_lookup(t)
    \/ \E t \in 1..Len(tasks) : thread_search_scan(t)
    \/ \E t \in 1..Len(tasks) : thread_post_display(t)
    \/ \E t \in 1..Len(tasks) : thread_post_found(t)

SpecClear == InitClear /\ [][NextClear]_vars

\* ------------------------------------------------------------- one search
\* The search terms of a single search: both cases, a number, a term that
\* also occurs in the text of an empty cell, a term no cell contains.
SearchQueries ==
    {<<"o">>, <<"O">>, <<"B", "o">>, <<"b", "O">>, <<"3">>, <<"a", "n">>, <<"z">>}

\* The sheet names a combo box can offer: those of the files that load.
KnownSheets == {"A", "B", "C", "Sheet1"}

\* The application when start_search has just started its thread: some file
\* was loaded (or its load failed), a file, the same or another, is picked,
\* the combo box holds a sheet of a file loaded before, a term is typed.
InitSearch ==
    /\ \E loaded \in Paths : searcher = load_file(NewSearcher, loaded).s
    /\ file_path_var \in Paths
    /\ combo_values = <<>>
    /\ \E w \in KnownSheets, q \in SearchQueries : tasks = <<NewTask(file_path_var, w, q)>>
    /\ queue = <<>>
    /\ search_results = <<>>
    /\ results_tree = <<>>
    /\ log_lines = << <<>> >>
    /\ tk_errors = {}
    /\ clicks = 0
    /\ selected_columns = EmptyDict
    /\ selector = NoSelector
    /\ export_file = NoFile
    /\ lock = FALSE
    /\ exporting = NotExporting
    /\ csv_text = <<>>
    /\ delimiter = NoDelimiter

\* The worker thread of one search and the Tk main loop.
NextSearch ==
    \/ dispatch
    \/ \E t \in 1..Len(tasks) : thread_check(t)
    \/ \E t \in 1..Len(tasks) : thread_load_path(t)
    \/ \E t \in 1..Len(tasks) : thread_load_reset(t)
    \/ \E t \in 1..Len(tasks) : thread_load_csv_sheets(t)
    \/ \E t \in 1..Len(tasks) : thread_load_csv_data(t)
    \/ \E t \in 1..Len(tasks) : thread_load_xl_sheets(t)
    \/ \E t \in 1..Len(tasks) : thread_load_xl_data(t)
    \/ \E t \in 1..Len(tasks) : thread_search_lookup(t)
    \/ \E t \in 1..Len(tasks) : thread_search_scan(t)
    \/ \E t \in 1..Len(tasks) : thread_post_display(t)
    \/ \E t \in 1..Len(tasks) : thread_post_found(t)
    \/ \E t \in 1..Len(tasks) : thread_post_error(t)

SpecSearch == InitSearch /\ [][NextSearch]_vars

\* ------------------------------------------------------------- _read_csv
\* The longest file _read_csv is given, in characters.
MaxCsvLen == 4

\* The characters of the files: the three delimiters the function looks
\* for, a character of data, the end of a line.
CsvChars == {";", ",", "\t", "a", "\n"}

\* The files of at most n characters.
CsvTexts(n) == UNION {[1..k -> CsvChars] : k \in 0..n}

\* `c in s` for one character.
Occurs(c, s) == \E i \in 1..Len(s) : s[i] = c

\* Where the first line of the text ends: at its first end of line, or with
\* the text.
LineEnd(text) ==
    IF Occurs("\n", text)
    THEN CHOOSE i \in 1..Len(text) :
            text[i] = "\n" /\ \A j \in 1..(i - 1) : text[j] # "\n"
    ELSE Len(text)

\* f.readline(), line 80: the first line with its end of line, the empty
\* string for an empty file.
ReadLine(text) == SubSeq(text, 1, LineEnd(text))

\* (a bug DetectDelimiter could have: the comma is looked for first)
DetectCommaFirst(first_line) ==
    IF Occurs(",", first_line) THEN ","
    ELSE IF Occurs(";", first_line) THEN ";"
    ELSE IF Occurs("\t", first_line) THEN "\t"
    ELSE ","

\* lines 83-90
DetectDelimiter(first_line) ==
    IF Occurs(";", first_line) THEN ";"
    ELSE IF Occurs(",", first_line) THEN ","
    ELSE IF Occurs("\t", first_line) THEN "\t"
    ELSE ","

\* _read_csv up to the delimiter it hands to pd.read_csv (the table
\* pd.read_csv returns is SheetTable).
read_csv ==
    /\ delimiter = NoDelimiter
    /\ delimiter' = DetectDelimiter(ReadLine(csv_text))
    /\ UNCHANGED <<file_path_var, combo_values, searcher, tasks, queue, search_results,
                   results_tree, log_lines, tk_errors, clicks, selected_columns,
                   selector, export_file, lock, exporting, csv_text>>

\* _read_csv is called with a file of any content.
InitCsv ==
    /\ csv_text \in CsvTexts(MaxCsvLen)
    /\ delimiter = NoDelimiter
    /\ file_path_var = NoPath
    /\ combo_values = <<>>
    /\ searcher = NewSearcher
    /\ tasks = <<>>
    /\ queue = <<>>
    /\ search_results = <<>>
    /\ results_tree = <<>>
    /\ log_lines = <<>>
    /\ tk_errors = {}
    /\ clicks = 0
    /\ selected_columns = EmptyDict
    /\ selector = NoSelector
    /\ export_file = NoFile
    /\ lock = FALSE
    /\ exporting = NotExporting

NextCsv == read_csv

SpecCsv == InitCsv /\ [][NextCsv]_vars

\* ------------------------------------------------------------- properties
TaskIds == 1..Len(tasks)

\* A callback of the given kind of thread t is still waiting in the queue.
Waiting(t, kind) == \E k \in 1..Len(queue) : queue[k] = [kind |-> kind, task |-> t]

\* Thread t has posted its display callback and the Tk thread has run it.
Displayed(t) == tasks[t].pc \in {"post775", "done"} /\ ~Waiting(t, "display")

\* Thread t is over and so are its callbacks.
Settled(t) ==
    \/ tasks[t].pc = "done" /\ ~Waiting(t, "display") /\ ~Waiting(t, "found")
    \/ tasks[t].pc = "failed" /\ ~Waiting(t, "error")

\* `list` is the batches of some of the threads of S, each at most once and
\* each whole, one after the other.
RECURSIVE BatchesOf(_, _)
BatchesOf(list, S) ==
    \/ list = <<>>
    \/ \E t \in S :
          LET b == tasks[t].results IN
          /\ b # <<>>
          /\ Len(b) <= Len(list)
          /\ SubSeq(list, 1, Len(b)) = b
          /\ BatchesOf(SubSeq(list, Len(b) + 1, Len(list)), S \ {t})

\* Strictly increasing (row, column).
RowMajor(b) ==
    \A k \in 1..(Len(b) - 1) :
        \/ b[k].row < b[k + 1].row
        \/ b[k].row = b[k + 1].row /\ b[k].col < b[k + 1].col

\* C1: under every interleaving, search_results is made of whole batches of
\* threads whose display callback has run, one batch after the other, each
\* batch being the thread's results in the order the search produced them
\* (row-major, column-minor): no record of another batch lies inside a
\* batch and no batch is reordered.
C1_BatchesContiguous ==
    /\ BatchesOf(search_results, {t \in TaskIds : Displayed(t)})
    /\ \A t \in TaskIds : RowMajor(tasks[t].results)

\* C1 witness: two threads have appended their batches, one of them of
\* several records, and both are in search_results.
C1_Witness ==
    \E t1, t2 \in TaskIds :
        /\ t1 # t2
        /\ Displayed(t1) /\ Displayed(t2)
        /\ Len(tasks[t1].results) >= 2
        /\ Len(tasks[t2].results) >= 1
        /\ Len(search_results) = Len(tasks[t1].results) + Len(tasks[t2].results)

\* C2: clear and append are serialized.  Every step leaves search_results
\* as it is, empties it, or appends the whole batch of one thread; and the
\* step of clear_results leaves it exactly empty, whatever is in flight.
C2_ClearOrWholeBatch ==
    [][/\ clear_results => (search_results' = <<>> /\ results_tree' = <<>>)
       /\ \/ search_results' = search_results
          \/ search_results' = <<>>
          \/ \E t \in TaskIds : search_results' = search_results \o tasks[t].results
      ]_vars

\* C2 witness: a batch was appended and then cleared away while another
\* thread was still in flight.
C2_Witness ==
    \E t1, t2 \in TaskIds :
        /\ Displayed(t1) /\ tasks[t1].results # <<>>
        /\ ~Settled(t2)
        /\ search_results = <<>> /\ results_tree = <<>>

\* The matches a search of the sheet of thread t returns when the file the
\* search names is loaded and nothing interferes.
ExpectedResults(t) ==
    search_in_worksheet(load_file(NewSearcher, tasks[t].file_path).s,
                        tasks[t].worksheet_name, tasks[t].query)

RECURSIVE SumLen(_, _)
SumLen(f(_), S) ==
    IF S = {} THEN 0
    ELSE LET t == CHOOSE x \in S : TRUE IN Len(f(t)) + SumLen(f, S \ {t})

\* The file thread t names loads and has the sheet thread t searches.
NamesLoadedSheet(t) ==
    LET r == load_file(NewSearcher, tasks[t].file_path) IN
    r.ok /\ tasks[t].worksheet_name \in DOMAIN r.s.file_data

\* C3 (the claim as stated): after a search-all issued with empty
\* search_results and nothing else in flight, once every thread has
\* completed and its callbacks have run, search_results holds exactly as
\* many records as the searched sheets have matches, whatever the order in
\* which the threads ran.
C3_SumOfMatchCounts ==
    (/\ tasks # <<>>
     /\ \A t \in TaskIds : tasks[t].pc = "done" /\ Settled(t) /\ NamesLoadedSheet(t))
    => Len(search_results) = SumLen(ExpectedResults, TaskIds)

\* C4: a thread that failed does not stop the others.  Every other thread
\* of the search-all is over, with its callbacks run, some time later; and
\* when all are, search_results is made of the whole batches of all the
\* threads that did not fail.
C4_FailureDoesNotBlock ==
    /\ \A t \in 1..MaxSheets :
          [](  (/\ t <= Len(tasks)
                /\ \E f \in TaskIds \ {t} : tasks[f].pc \in {"fail779", "failed"})
            => <>(t <= Len(tasks) /\ Settled(t)))
    /\ []((\A t \in TaskIds : Settled(t))
          => LET ok == {t \in TaskIds : tasks[t].pc = "done"} IN
             /\ BatchesOf(search_results, ok)
             /\ Len(search_results) = SumLen(LAMBDA t : tasks[t].results, ok))

\* C4 witness: one thread of the search-all failed, another one found
\* matches, and they are in search_results.
C4_Witness ==
    /\ \A t \in TaskIds : Settled(t)
    /\ \E f, t \in TaskIds :
          /\ tasks[f].pc = "failed"
          /\ tasks[t].pc = "done" /\ tasks[t].results # <<>>
          /\ search_results # <<>>

\* C5 (the claim as stated): a thread that failed has, once its callback
\* has run, a line in the log that carries its sheet name and the error
\* description.
C5_FailureNotified ==
    \A t \in TaskIds :
        (tasks[t].pc = "failed" /\ ~Waiting(t, "error"))
        => \E k \in 1..Len(log_lines[t]) :
              log_lines[t][k] = Msg("Erro", tasks[t].worksheet_name, 0, tasks[t].err)

\* C6: a thread whose search returned logs one completion line and no more;
\* the line carries its sheet name and the length of its batch, which is
\* the number of records its display callback appends to search_results;
\* and the line does arrive.
C6_OneCompletionNotice ==
    /\ [](\A t \in TaskIds :
            /\ Len(log_lines[t]) <= 1
            /\ log_lines[t] # <<>> =>
                  /\ log_lines[t][1] =
                        Msg("Encontrados", tasks[t].worksheet_name, Len(tasks[t].results), "")
                  /\ tasks[t].pc = "done")
    /\ [][\A t \in TaskIds :
            (Waiting(t, "display") /\ ~(Waiting(t, "display"))')
            => Len(search_results') = Len(search_results) + Len(tasks[t].results)
         ]_vars
    /\ \A t \in 1..MaxSheets :
          [](  (t <= Len(tasks) /\ tasks[t].pc \in {"post774", "post775", "done"})
            => <>(t <= Len(tasks) /\ Len(log_lines[t]) = 1))

\* C6 witness: a thread with a batch of several records has logged its
\* completion line and the batch is in search_results.
C6_Witness ==
    \E t \in TaskIds :
        /\ Settled(t) /\ Len(tasks[t].results) >= 2
        /\ Len(log_lines[t]) = 1
        /\ search_results = tasks[t].results

\* The records of `old` are still in `new`, at their places.
KeepsRecords(old, new) ==
    Len(old) <= Len(new) /\ SubSeq(new, 1, Len(old)) = old

\* C7 (the claim as stated): neither start_search nor
\* search_all_worksheets removes a record from search_results.
C7_NoImplicitClear ==
    [][((\E w \in ComboChoices, q \in Queries : start_search(w, q))
        \/ (\E q \in Queries : search_all_worksheets(q)))
       => KeepsRecords(search_results, search_results')]_vars

\* C7 (amended): start_search never touches search_results, so single
\* searches accumulate; search_all_worksheets, whenever it starts its
\* threads, first empties search_results and the results view.
C7_OnlySearchAllClears ==
    [][/\ (\E w \in ComboChoices, q \in Queries : start_search(w, q))
          => search_results' = search_results
       /\ (\E q \in Queries : search_all_worksheets(q) /\ tasks' # tasks)
          => (search_results' = <<>> /\ results_tree' = <<>>)
      ]_vars

\* C7 witness: the batch of a first search was appended, and a search-all
\* that came next (the only commands: a file picked, a load, two searches)
\* removed it.
C7_Witness ==
    /\ clicks = 4 /\ Len(tasks) = 2
    /\ file_path_var = QCsv /\ searcher.file_path = QCsv
    /\ Displayed(1) /\ tasks[1].results # <<>>
    /\ search_results = <<>>

\* C8 (the claim as stated): the applied selection changes only through an
\* explicit apply.  No step changes selected_columns unless it is a step of
\* an open selector in which "apply" was pressed; so edits ended by cancel
\* or by closing without apply leave it value for value as it was.
C8_ChangesOnlyThroughApply ==
    [][selected_columns' # selected_columns => (selector.open /\ selector.applied)]_vars

\* C9 (the claim as stated): a record whose sheet is absent from the applied
\* selection, or mapped to the empty set, is projected on all the columns of
\* its full row plus the two fixed headers.
C9_EmptySelectionNoFilter ==
    ~selector.open =>
        \A k \in 1..Len(search_results), order \in SetOrders(selected_columns) :
            LET result == search_results[k] IN
            (\/ result.worksheet \notin DOMAIN selected_columns
             \/ selected_columns[result.worksheet] = {})
            => KeySet(get_filtered_row(selected_columns, result, order))
                  = (DOMAIN result.full_row) \cup {WorksheetKey, CellKey}

\* C10 (the claim as stated): the keys of every object a JSON export
\* writes are, in order, the header list get_all_headers computes for the
\* same results and selection (the one the CSV and Excel exports write).
C10_JsonKeysAreAllHeaders ==
    [][(export_file' # export_file /\ export_file'.format = "json")
       => \A k \in 1..Len(export_file'.rows) :
             Keys(export_file'.rows[k]) = get_all_headers(selected_columns, search_results)
      ]_vars

\* The headers of a sequence.
HeaderSet(headers) == {headers[h] : h \in 1..Len(headers)}

\* C11 (the claim as stated): every row an export writes has a value for
\* every header of the header list computed for the same results and
\* selection: a JSON object has every header among its keys, a CSV or Excel
\* row has one value per header.
C11_EveryHeaderHasValue ==
    [][(exporting.pc = "rows" /\ exporting'.pc = "idle")
       => \A k \in 1..Len(export_file'.rows) :
             IF export_file'.format = "json"
             THEN HeaderSet(get_all_headers(selected_columns, search_results))
                     \subseteq KeySet(export_file'.rows[k])
             ELSE Len(export_file'.rows[k]) = Len(export_file'.header)
      ]_vars

\* C12 (the claim as stated): an export that reported an error has left
\* nothing of its own in the destination file, neither a header row nor
\* data rows.
C12_NoPartialFile ==
    export_file.failed => (export_file.header = <<>> /\ export_file.rows = <<>>)

Loading(t) == tasks[t].pc \in {"load41", "load48", "load50", "load59", "load64"}

\* Worker thread t is inside search_in_worksheet and has yet to read
\* file_data (line 98) or to read it again (line 101).
Reading(t) == tasks[t].pc \in {"search98", "search101"}

\* C14: a load never races with a search in flight: while a search task
\* is reading the loaded tables, no load is resetting or replacing them.
C14_NoLoadDuringSearch ==
    \A t \in 1..Len(tasks), u \in 1..Len(tasks) : Reading(t) => ~Loading(u)

\* The extension of path p is none of those load_file reads (lines 45, 56).
Unsupported(p) ==
    ~(EndsWith(p, ".csv") \/ EndsWith(p, ".xlsx") \/ EndsWith(p, ".xls"))

\* C15: load(path) fails with a load error for every path whose extension
\* is unsupported or absent: whenever load_worksheets loads such a path, the
\* load raises; it never returns successfully with an empty sheet list.
C15_UnsupportedExtensionFails ==
    [][(/\ file_path_var # NoPath
        /\ Unsupported(file_path_var)
        /\ clicks' = clicks + 1
        /\ searcher' # searcher
        /\ searcher' = load_file(searcher, file_path_var).s)
       => ~load_file(searcher, file_path_var).ok]_vars

\* search_in_worksheet has returned to thread t (line 772 is passed).
Returned(t) == tasks[t].pc \in {"post774", "post775", "done"}

\* Thread t ended in the handler of line 778: load_file or
\* search_in_worksheet raised FileSearchError.
Raised(t) == tasks[t].pc \in {"fail779", "failed"}

\* C16: search distinguishes an absent sheet from a sheet without matches:
\* it never returns for a sheet name that is not loaded (it raises a search
\* error), and for a loaded sheet without a matching cell it returns the
\* empty sequence.
C16_AbsentSheetIsError ==
    \A t \in TaskIds :
        Returned(t) =>
            /\ tasks[t].worksheet_name \in DOMAIN searcher.file_data
            /\ tasks[t].results = Scan(searcher.file_data[tasks[t].worksheet_name],
                                       tasks[t].worksheet_name, tasks[t].query)

\* The table search_in_worksheet scanned for thread t.
SearchedTable(t) == searcher.file_data[tasks[t].worksheet_name]

\* C17: search returns its matches in strictly increasing (row, column)
\* order of the sheet, and the cell label of each record is the name of the
\* column at the record's column index followed by the record's 1-based row
\* number.
C17_OrderedAndLabelled ==
    \A t \in TaskIds :
        (Returned(t) /\ tasks[t].worksheet_name \in DOMAIN searcher.file_data) =>
            LET df == SearchedTable(t)
                b == tasks[t].results IN
            /\ RowMajor(b)
            /\ \A k \in 1..Len(b) :
                  /\ b[k].row \in 1..Len(df.rows)
                  /\ b[k].col \in 1..Len(df.columns)
                  /\ b[k].cell = <<df.columns[b[k].col]>> \o Digits(b[k].row)

\* A search has returned matches of two rows, two of them in one row.
C17_Witness ==
    \E t \in TaskIds :
        /\ Returned(t)
        /\ \E j, k \in 1..Len(tasks[t].results) :
              tasks[t].results[j].row # tasks[t].results[k].row
        /\ \E j, k \in 1..Len(tasks[t].results) :
              /\ tasks[t].results[j].row = tasks[t].results[k].row
              /\ tasks[t].results[j].col # tasks[t].results[k].col

\* The records of b that name the cell of row r and column c.
RecordsOf(b, r, c) == {k \in 1..Len(b) : b[k].row = r /\ b[k].col = c}

\* C18: search returns exactly one record for each cell whose stringified
\* value contains the query as a case-insensitive substring, and none for
\* any other cell; the table Name,Age / Alice,30 / Bob,25 searched for "o"
\* yields the single record Sheet1, Name2, "Bob".
C18_OneRecordPerMatchingCell ==
    \A t \in TaskIds :
        (Returned(t) /\ tasks[t].worksheet_name \in DOMAIN searcher.file_data) =>
            LET df == SearchedTable(t)
                b == tasks[t].results IN
            /\ \A r \in 1..Len(df.rows), c \in 1..Len(df.columns) :
                  Cardinality(RecordsOf(b, r, c)) =
                     IF Contains(Lower(tasks[t].query),
                                 Lower(AsStr(df.rows[r][df.columns[c]])))
                     THEN 1 ELSE 0
            /\ \A k \in 1..Len(b) :
                  /\ b[k].row \in 1..Len(df.rows)
                  /\ b[k].col \in 1..Len(df.columns)
                  /\ b[k].value = AsStr(df.rows[b[k].row][df.columns[b[k].col]])
            /\ (df = TableCsv /\ tasks[t].query = <<"o">>) =>
                  /\ Len(b) = 1
                  /\ b[1].worksheet = "Sheet1"
                  /\ b[1].cell = <<"Name", "2">>
                  /\ b[1].value = <<"B", "o", "b">>

\* The search of the csv table for "o" has returned its one record.
C18_Witness ==
    \E t \in TaskIds :
        /\ Returned(t)
        /\ tasks[t].worksheet_name \in DOMAIN searcher.file_data
        /\ SearchedTable(t) = TableCsv
        /\ tasks[t].query = <<"o">>
        /\ Len(tasks[t].results) = 1

\* C19: query matching is case-insensitive: the records a search returned
\* are those the search of the same sheet returns for the query in capital
\* letters and for the query in small letters.
C19_CaseInsensitive ==
    \A t \in TaskIds :
        Returned(t) =>
            /\ tasks[t].results =
                  search_in_worksheet(searcher, tasks[t].worksheet_name, Upper(tasks[t].query))
            /\ tasks[t].results =
                  search_in_worksheet(searcher, tasks[t].worksheet_name, Lower(tasks[t].query))

\* A search for a term of both cases has returned a match whose text has
\* the letters in the other case.
C19_Witness ==
    \E t \in TaskIds :
        /\ Returned(t)
        /\ tasks[t].query = <<"b", "O">>
        /\ \E k \in 1..Len(tasks[t].results) : tasks[t].results[k].value = <<"B", "o", "b">>

\* The rank of a delimiter: the semicolon before the comma before the tab.
Priority(d) == CASE d = ";" -> 1 [] d = "," -> 2 [] OTHER -> 3

\* The delimiters that occur in the first line of the text, that is, before
\* any end of line.
InFirstLine(text) ==
    {d \in {";", ",", "\t"} :
        \E i \in 1..Len(text) : text[i] = d /\ \A j \in 1..(i - 1) : text[j] # "\n"}

\* C20: the detected delimiter is the highest-priority of semicolon, comma
\* and tab that occurs anywhere in the first line, the comma when none does,
\* and it depends only on the first line: whatever the later lines are
\* changed to, the file gives the same delimiter.
C20_DelimiterOfFirstLine ==
    delimiter # NoDelimiter =>
        /\ delimiter = IF InFirstLine(csv_text) = {} THEN ","
                       ELSE CHOOSE d \in InFirstLine(csv_text) :
                               \A e \in InFirstLine(csv_text) : Priority(d) <= Priority(e)
        /\ Occurs("\n", csv_text) =>
              \A later \in CsvTexts(Len(csv_text) - LineEnd(csv_text)) :
                  DetectDelimiter(ReadLine(SubSeq(csv_text, 1, LineEnd(csv_text)) \o later))
                     = delimiter

\* The semicolon was detected in a first line where a comma comes before it,
\* for a file whose second line holds another delimiter.
C20_Witness ==
    /\ delimiter = ";"
    /\ Len(csv_text) = 4
    /\ csv_text[1] = "," /\ csv_text[2] = ";" /\ csv_text[3] = "\n"
    /\ csv_text[4] = "\t"

\* Some sheet of the selection has a selected column.
AnySelected(sel) == \E ws \in DOMAIN sel : sel[ws] # {}

\* The header universe the selection and the results call for: the selected
\* columns of all the sheets when a selection exists, the keys of the full
\* rows of all the records otherwise.
HeaderUniverse(sel, results) ==
    IF AnySelected(sel)
    THEN UNION {sel[ws] : ws \in DOMAIN sel}
    ELSE UNION {DOMAIN results[k].full_row : k \in 1..Len(results)}

ExportedKeys(file, k) ==
    CASE file.format = "json" -> KeySet(file.rows[k])
      [] file.format = "csv" ->
            {file.header[h] : h \in {i \in 1..Len(file.header) : file.rows[k][i] # <<>>}}
      [] OTHER ->
            {file.header[h] : h \in {i \in 1..Len(file.header) : file.rows[k][i] # StrV(<<>>)}}

\* C22: with a selection that holds exactly the column Name for a sheet,
\* every row an export writes for a record of that sheet holds the keys
\* worksheet, célula and Name and no other column of the record's full row.
C22_OnlySelectedColumns ==
    [][(exporting.pc = "rows" /\ exporting'.pc = "idle")
       => \A k \in 1..Len(export_file'.rows) :
             LET ws == search_results[k].worksheet IN
             (ws \in DOMAIN selected_columns /\ selected_columns[ws] = {"Name"})
             => ExportedKeys(export_file', k) = {WorksheetKey, CellKey, "Name"}
      ]_vars

\* An export has written the row of a record of Sheet1, whose full row
\* has the columns Name and Age, under the selection of Name for Sheet1.
C22_Witness ==
    /\ exporting.pc = "idle"
    /\ selected_columns = [ws \in {"Sheet1"} |-> {"Name"}]
    /\ Len(search_results) >= 1
    /\ search_results[1].worksheet = "Sheet1"
    /\ DOMAIN search_results[1].full_row = {"Name", "Age"}
    /\ Len(export_file.rows) >= 1
    /\ ExportedKeys(export_file, 1) = {WorksheetKey, CellKey, "Name"}

\* C23: a click on a column item is an involution: after a click on an
\* item, a second click on the same item gives back, for every sheet, the
\* set of selected columns there was before the first.
C23_ToggleTwiceRestores ==
    [][\A item \in TreeItems(selector.search_results) :
          on_tree_click(item)
          => Toggled(SelectorDict', selector'.ticked, item).d = SelectorDict
      ]_vars

\* A column item was ticked by a click and another was not: the selector
\* holds a selection that is neither empty nor everything.
C23_Witness ==
    /\ selector.open
    /\ \E item \in TreeItems(selector.search_results) :
          item \in selector.ticked /\ item[2] \in SelectorDict[item[1]]
    /\ \E item \in TreeItems(selector.search_results) : item \notin selector.ticked

\* The selection and the marks of the open selector are those of r.
SameSelection(r) == r.d = SelectorDict /\ r.ticked = selector.ticked

\* C24: the bulk selection operations are idempotent: after toggle_all,
\* toggle_filtered or mark_same_columns has run, running the same operation
\* again, with the same argument, leaves the selection and the marks as the
\* first run left them.
C24_BulkOperationsIdempotent ==
    [][/\ \A state \in BOOLEAN :
             toggle_all(state)
             => SameSelection(SetAll(SelectorDict, selector.ticked,
                                     Visited(selector), state))'
       /\ \A state \in BOOLEAN :
             (toggle_filtered(state) /\ Lower(selector.filter) # <<>>)
             => SameSelection(SetAll(SelectorDict, selector.ticked,
                                     Filtered(selector), state))'
       /\ \A focus \in TreeItems(selector.search_results) :
             mark_same_columns(focus)
             => SameSelection(MarkedSame(SelectorDict, selector.ticked,
                                         TreeItems(selector.search_results), focus))'
      ]_vars

\* A filter is typed that hides some column items and shows others, and the
\* items it shows are ticked while others are not: toggle_filtered has run
\* on a selector of which a part only is ticked.
C24_Witness ==
    /\ selector.open
    /\ Lower(selector.filter) # <<>>
    /\ selector.detached # {}
    /\ Filtered(selector) # {}
    /\ Filtered(selector) \subseteq selector.ticked
    /\ \E item \in TreeItems(selector.search_results) : item \notin selector.ticked
    /\ \E item \in Filtered(selector) : item[2] \in SelectorDict[item[1]]

\* C25: a record is immutable once created: no selection change, projection
\* or export changes the full_row or the columns of a record of
\* search_results.
C25_RecordsImmutable ==
    [][\A k \in 1..Len(search_results) :
          /\ k <= Len(search_results')
          /\ search_results'[k].full_row = search_results[k].full_row
          /\ search_results'[k].columns = search_results[k].columns
      ]_vars

\* An export has projected a record on a selection that leaves out one of
\* its columns, and the record still has its whole row.
C25_Witness ==
    /\ exporting.pc = "idle"
    /\ Len(export_file.rows) >= 1
    /\ Len(search_results) >= 1
    /\ search_results[1].worksheet \in DOMAIN selected_columns
    /\ selected_columns[search_results[1].worksheet] # {}
    /\ ExportedKeys(export_file, 1) \ {WorksheetKey, CellKey}
          # DOMAIN search_results[1].full_row
    /\ DOMAIN search_results[1].full_row = HeaderSet(search_results[1].columns)

\* C26 (the claim as stated): every step that reads search_results, the
\* header aggregation of an export, its loop over the records and the copy
\* handed to the column selector, runs while self.lock is held.  (The append
\* of _display_results and the clear of clear_results are inside their own
\* `with self.lock`, within one step.)
C26_ResultSetOnlyUnderLock ==
    [][(\/ export_headers
        \/ export_rows
        \/ (open_column_selector /\ selector'.open))
       => lock]_vars

\* The step empties search_results: clear_results, or the clear inside
\* search_all_worksheets.
ClearStep ==
    \/ clear_results
    \/ \E q \in {EarlierQuery, LaterQuery} :
          search_all_worksheets(q) /\ Len(tasks') > Len(tasks)

\* C27: a search in flight when the results are cleared is not cancelled:
\* the clear leaves every thread and every waiting callback as it is, and
\* when the display callback of a thread runs, whatever was cleared before,
\* the whole batch of the thread is appended to search_results.
C27_ClearDoesNotCancel ==
    [][/\ ClearStep =>
             /\ queue' = queue
             /\ SubSeq(tasks', 1, Len(tasks)) = tasks
       /\ \A t \in TaskIds :
             (Waiting(t, "display") /\ ~(Waiting(t, "display"))')
             => search_results' = search_results \o tasks[t].results
      ]_vars

\* The search-all for the later term, which clears the results, ran while
\* the search for the earlier term was in flight, and search_results now
\* holds the matches of the earlier term.
C27_Witness ==
    /\ Len(tasks) >= 2
    /\ tasks[1].query = EarlierQuery /\ tasks[2].query = LaterQuery
    /\ Displayed(1)
    /\ tasks[1].results # <<>>
    /\ \E k \in 1..Len(search_results) : search_results[k] = tasks[1].results[1]

\* C28: after every callback of the UI thread (the display of a batch, a
\* clear) the rows of the results view are the records of search_results,
\* one row per record and in the same order: sheet, cell reference, value.
C28_ViewShowsResultSet ==
    /\ Len(results_tree) = Len(search_results)
    /\ \A k \in 1..Len(search_results) :
          results_tree[k] = <<search_results[k].worksheet,
                              search_results[k].cell,
                              search_results[k].value>>

\* After the clear of the search-all, the batches of two threads have been
\* displayed and the view has a row for each of their records.
C28_Witness ==
    /\ Len(tasks) >= 2
    /\ Displayed(1) /\ Displayed(2)
    /\ tasks[1].results # <<>> /\ tasks[2].results # <<>>
    /\ Len(results_tree) = Len(tasks[1].results) + Len(tasks[2].results)
    /\ results_tree[1][1] = search_results[1].worksheet

\* The step runs a `with self.lock:` of the UI thread: the append of a
\* batch (794), the clear (803), the emptiness tests of the selector and of
\* the exports (811, 864, 893, 925), the row loops of the exports.
LockRequest ==
    \/ dispatch /\ Head(queue).kind = "display"
    \/ clear_results
    \/ open_column_selector
    \/ export_full_rows_to_json \/ export_full_rows_to_csv \/ export_full_rows_to_excel
    \/ export_acquire

\* C29: the lock of search_results never deadlocks.  No step requests it
\* while it is held; an export that has reached its `with self.lock:` finds
\* it free; it is held only inside the row loop of an export, and the step
\* that leaves the loop, by its end or by the error of a refused row,
\* releases it.
C29_LockNeverDeadlocks ==
    /\ [][LockRequest => ~lock]_vars
    /\ [](exporting.pc = "lock" => ~lock)
    /\ [](lock => exporting.pc = "rows")
    /\ [][(exporting.pc = "rows" /\ exporting'.pc # "rows") => ~lock']_vars

\* A CSV export has left its row loop by the error of a refused row, and
\* the lock is free.
C29_Witness ==
    /\ export_file.format = "csv" /\ export_file.failed
    /\ exporting.pc = "idle"
    /\ ~lock

\* The sheet names the loader lists.
ListedSheets == {searcher.worksheets[k] : k \in 1..Len(searcher.worksheets)}

\* C30: once a load has returned, by its end or by an error, the list of
\* sheet names and the map of tables agree: every listed sheet has a table
\* and every table is of a listed sheet.
C30_SheetListAgreesWithTables ==
    (\A t \in TaskIds : ~Loading(t)) => ListedSheets = DOMAIN searcher.file_data

\* C31: for every search_results and selection the application reaches, a
\* selection applied before the records of further sheets were appended
\* included, the keys of every projected row are among the headers
\* get_all_headers gives: no projected row carries a column the header list
\* lacks.
C31_RowKeysAmongHeaders ==
    \A k \in 1..Len(search_results), order \in SetOrders(selected_columns) :
        KeySet(get_filtered_row(selected_columns, search_results[k], order))
            \subseteq HeaderSet(get_all_headers(selected_columns, search_results))

====
